---- MODULE Spec2Model ----
(***************************************************************************)
(* Model of tools/parse_latency_logcat.py: the event correlators, the      *)
(* statistics aggregator, the group ranking, the role inference and the    *)
(* per-file report driver.                                                 *)
(*                                                                         *)
(* Conventions of the model                                                *)
(*  - Optional[x] is a sequence of length 0 (None) or 1 (the value).       *)
(*  - A Python dict is a sequence of <<key, value>> pairs in insertion     *)
(*    order; updating an existing key keeps its position.                  *)
(*  - Event.fields is a function over FieldNames to Optional[str]: an      *)
(*    absent key maps to None, which is what Event.get returns for it.     *)
(*  - A millisecond value ns / 1_000_000.0 is the rational                 *)
(*    [num |-> ns, den |-> 1000000]; rationals are compared by cross       *)
(*    multiplication (float division by 1e6 is monotone and injective on   *)
(*    the integers of the model).                                          *)
(***************************************************************************)
EXTENDS Integers, Sequences, FiniteSets, TLC

VARIABLES
  events,      \* the Event list parse_latency_lines has built so far
  pc,          \* where the run is: "parse", the analysis to run next, or "done"
  deltas,      \* stage pair name -> delta list (ns), for the analyses that ran
  groups,      \* table title -> per-group dict, for the analyses that ran
  out,         \* the lines printed so far
  samples,   \* argument of a direct call of stats_ms
  summary,     \* <<>> before that call, <<its result>> after
  histogram,   \* the histogram build_event_counts returned
  verdict,     \* Optional: what infer_role returned
  table,       \* argument of a direct call of _print_group_table
  ranked,      \* <<>> before that call, <<sort_by, limit, printed lines>> after
  lines,       \* the raw lines of the file read so far, as [prefix, tokens] records
  argv,        \* the paths main collected from --dir and the positional arguments
  uniq,        \* main's de-duplicated list
  printed,     \* what main has printed or summarized, one entry per processed file
  rc,          \* Optional: main's exit status once it has ended
  devlogs,     \* latency_test: device -> the outgoing and incoming maps parse_log built
  flows,       \* latency_test: the statistics lines printed, <<>> before the analysis
  runs         \* the analyses a caller has called again and again, in call order

vars == <<events, pc, deltas, groups, out, samples, summary, histogram, verdict,
          table, ranked, lines, argv, uniq, printed, rc, devlogs, flows,
          runs>>
corrVars == <<events, pc, deltas, groups, out>>
statsVars == <<samples, summary>>
roleVars == <<histogram, verdict>>
rankVars == <<table, ranked>>
parseVars == <<lines>>
mainVars == <<argv, uniq, printed, rc>>
flowVars == <<devlogs, flows>>
rerunVars == <<runs>>

(* ------------------------------ bounds -------------------------------- *)
MaxT == 1
MaxEvents == 3
MaxValues == 6
MaxNs == 1
MaxRoleEvents == 3
MaxGroupLen == 2
MaxReportEvents == 2
MaxTokens == 3
MaxLines == 2
MaxArgs == 3
MaxFlowLines == 2
MaxRerunEvents == 2
MaxRuns == 2

(* ------------------------- Optional and dict --------------------------- *)
None == <<>>
Some(v) == <<v>>

DictHas(d, k) == \E i \in 1..Len(d) : d[i][1] = k
DictGet(d, k) ==
  IF DictHas(d, k) THEN Some(d[CHOOSE i \in 1..Len(d) : d[i][1] = k][2]) ELSE None
DictPut(d, k, v) ==
  IF DictHas(d, k)
  THEN [i \in 1..Len(d) |-> IF d[i][1] = k THEN <<k, v>> ELSE d[i]]
  ELSE Append(d, <<k, v>>)
\* d.setdefault(k, []).append(v)
DictAppend(d, k, v) ==
  IF DictHas(d, k)
  THEN [i \in 1..Len(d) |-> IF d[i][1] = k THEN <<k, Append(d[i][2], v)>> ELSE d[i]]
  ELSE Append(d, <<k, <<v>>>>)
DictKeys(d) == {d[i][1] : i \in 1..Len(d)}

(* ------------------------------- Event --------------------------------- *)
FieldNames == {"fid", "seq", "fragId", "idx", "addr", "priority", "transferId"}

NoFields == [k \in FieldNames |-> None]
Fields(rec) == [k \in FieldNames |-> IF k \in DOMAIN rec THEN Some(rec[k]) ELSE None]
Event(ev, t, fields) == [ev |-> ev, t |-> t, fields |-> fields]

DigitVal(c) ==
  CASE c = "0" -> 0 [] c = "1" -> 1 [] c = "2" -> 2 [] c = "3" -> 3 [] c = "4" -> 4
    [] c = "5" -> 5 [] c = "6" -> 6 [] c = "7" -> 7 [] c = "8" -> 8 [] c = "9" -> 9
    [] OTHER -> -1

\* int(v) on the strings of the model: a non-empty string of ASCII digits is its
\* decimal value (leading zeros allowed), anything else raises and gives None.
RECURSIVE DecimalValue(_, _, _)
DecimalValue(s, i, acc) ==
  IF i > Len(s) THEN acc
  ELSE DecimalValue(s, i + 1, 10 * acc + DigitVal(SubSeq(s, i, i)))

to_int(v) ==
  IF v = None THEN None
  ELSE IF Len(v[1]) > 0 /\ \A i \in 1..Len(v[1]) : DigitVal(SubSeq(v[1], i, i)) >= 0
  THEN Some(DecimalValue(v[1], 1, 0)) ELSE None

get(e, k) == e.fields[k]
geti(e, k) == to_int(get(e, k))

(* ------------------------------ strings -------------------------------- *)
\* The characters the model's strings are made of, in code point order.
Chars == "()0123456789:ABCDEFGHIJKLMNOPQRSTUVWXYZ_abcdefghijklmnopqrstuvwxyz"
Ord(c) == CHOOSE i \in 1..Len(Chars) : SubSeq(Chars, i, i) = c

\* a < b for Python str: lexicographic by code point, a proper prefix is smaller.
StrLess(a, b) ==
  \E i \in 1..(Len(b)) :
     /\ i <= Len(a) + 1
     /\ SubSeq(a, 1, i - 1) = SubSeq(b, 1, i - 1)
     /\ \/ i = Len(a) + 1
        \/ Ord(SubSeq(a, i, i)) < Ord(SubSeq(b, i, i))

startswith(s, prefix) ==
  Len(s) >= Len(prefix) /\ SubSeq(s, 1, Len(prefix)) = prefix

(* ----------------------------- line parser ------------------------------ *)
\* sub in s
Contains(s, sub) ==
  \E i \in 1..(Len(s) - Len(sub) + 1) : SubSeq(s, i, i + Len(sub) - 1) = sub

\* s.find(sub) + 1: the position of the first occurrence, 0 when there is none.
Find(s, sub) ==
  IF Contains(s, sub)
  THEN CHOOSE i \in 1..(Len(s) - Len(sub) + 1) :
         /\ SubSeq(s, i, i + Len(sub) - 1) = sub
         /\ \A j \in 1..(i - 1) : SubSeq(s, j, j + Len(sub) - 1) # sub
  ELSE 0

\* s.strip(); the only whitespace of the model's lines is the space.
strip(s) ==
  LET solid == {i \in 1..Len(s) : SubSeq(s, i, i) # " "}
  IN IF solid = {} THEN ""
     ELSE SubSeq(s, CHOOSE i \in solid : \A j \in solid : i <= j,
                 CHOOSE i \in solid : \A j \in solid : i >= j)

\* [p for p in segment.split(" ") if p]
RECURSIVE SplitLoop(_, _, _, _)
SplitLoop(segment, i, cur, parts) ==
  IF i > Len(segment) THEN (IF cur = "" THEN parts ELSE Append(parts, cur))
  ELSE IF SubSeq(segment, i, i) = " "
  THEN SplitLoop(segment, i + 1, "", IF cur = "" THEN parts ELSE Append(parts, cur))
  ELSE SplitLoop(segment, i + 1, cur \o SubSeq(segment, i, i), parts)

\* The loop over parts: a token without "=" is skipped, a repeated key overwrites.
RECURSIVE KvLoop(_, _, _)
KvLoop(parts, i, kv) ==
  IF i > Len(parts) THEN kv
  ELSE LET p == parts[i]
           eq == Find(p, "=")
       IN KvLoop(parts, i + 1,
                 IF eq = 0 THEN kv
                 ELSE DictPut(kv, SubSeq(p, 1, eq - 1), SubSeq(p, eq + 1, Len(p))))

\* kv.pop(k, None)
DictPop(d, k) == SelectSeq(d, LAMBDA kv : kv[1] # k)

\* The segment of a line that holds the key=value tokens.
segment_of(raw) ==
  IF Contains(raw, "latency:")
  THEN strip(SubSeq(raw, Find(raw, "latency:") + Len("latency:"), Len(raw)))
  ELSE LET idx == Find(raw, "ev=")
       IN IF idx >= 1 THEN strip(SubSeq(raw, idx, Len(raw))) ELSE raw

\* The marker test of the loop body: `if "latency" not in raw: continue`.
has_marker(raw) == Contains(raw, "latency")

\* One iteration of the loop of parse_latency_lines: the Events (none or one)
\* the line adds.
parse_line(raw) ==
  IF ~has_marker(raw) THEN <<>>
  ELSE IF ~Contains(raw, "ev=") \/ ~Contains(raw, " t=") THEN <<>>
  ELSE LET kv == KvLoop(SplitLoop(segment_of(raw), 1, "", <<>>), 1, <<>>)
           ev == DictGet(kv, "ev")
           t == to_int(DictGet(kv, "t"))
       IN IF ev = None \/ t = None THEN <<>>
          ELSE LET rest == DictPop(DictPop(kv, "ev"), "t")
               IN <<Event(ev[1], t[1], [k \in FieldNames |-> DictGet(rest, k)])>>

(* ------------------------ statistics aggregator ------------------------ *)
ns_to_us(ns) == [num |-> ns, den |-> 1000]
ns_to_ms(ns) == [num |-> ns, den |-> 1000000]

RatLess(a, b) == a.num * b.den < b.num * a.den
RatEq(a, b) == a.num * b.den = b.num * a.den
RatLE(a, b) == a.num * b.den <= b.num * a.den

\* sorted(xs): ascending, stable.
InsertAsc(s, x) ==
  LET k == Cardinality({i \in 1..Len(s) : RatLE(s[i], x)})
  IN SubSeq(s, 1, k) \o <<x>> \o SubSeq(s, k + 1, Len(s))
unsorted(xs) == xs
RECURSIVE SortLoop(_, _, _)
SortLoop(xs, i, acc) ==
  IF i > Len(xs) THEN acc ELSE SortLoop(xs, i + 1, InsertAsc(acc, xs[i]))
sorted(xs) == SortLoop(xs, 1, <<>>)

\* round(num / den) for num >= 0, den > 0: Python 3 rounds a half to the even
\* integer. For p in {50, 90, 99} and n < 200000 the double (p / 100.0) * (n - 1)
\* rounds to the same integer as the exact quotient p * (n - 1) / 100.
round_half_up(num, den) == (2 * num + den) \div (2 * den)
round(num, den) ==
  LET q == num \div den
      r == num % den
  IN IF 2 * r < den THEN q
     ELSE IF 2 * r > den THEN q + 1
     ELSE IF q % 2 = 0 THEN q ELSE q + 1

Min(a, b) == IF a < b THEN a ELSE b
Max(a, b) == IF a > b THEN a ELSE b

\* pct(p) of stats_ms over the sorted list ms; the element at 0-based index k.
pct(ms, p) ==
  IF Len(ms) = 0 THEN [num |-> 0, den |-> 1]
  ELSE IF Len(ms) = 1 THEN ms[1]
  ELSE LET k == Max(0, Min(Len(ms) - 1, round(p * (Len(ms) - 1), 100)))
       IN ms[k + 1]

RECURSIVE SumLoop(_, _, _)
SumLoop(ms, i, acc) ==
  IF i > Len(ms) THEN acc ELSE SumLoop(ms, i + 1, acc + ms[i].num)
SumNum(ms) == SumLoop(ms, 1, 0)

\* statistics.mean of values that share the denominator 1000000; the exact
\* rational is kept (the code rounds it to the nearest double).
mean(ms) == [num |-> SumNum(ms), den |-> 1000000 * Len(ms)]

stats_ms(values_ns) ==
  IF Len(values_ns) = 0 THEN None
  ELSE LET ms == sorted([i \in 1..Len(values_ns) |-> ns_to_ms(values_ns[i])])
       IN Some([count |-> Len(ms),
                avg_ms |-> mean(ms),
                p50_ms |-> pct(ms, 50),
                p90_ms |-> pct(ms, 90),
                p99_ms |-> pct(ms, 99),
                min_ms |-> ms[1],
                max_ms |-> ms[Len(ms)]])

\* One printed line of the report: text is "no data", "stats", "title", "header"
\* or "row"; s is the summary the line shows, if any.
Line(text, name, s) == [text |-> text, name |-> name, s |-> s]

print_stats_zero_summary(name, values_ns) ==
  LET s == stats_ms(values_ns)
      zero == [num |-> 0, den |-> 1]
  IN IF s = None
     THEN <<Line("stats", name,
                 Some([count |-> 0, avg_ms |-> zero, p50_ms |-> zero, p90_ms |-> zero,
                       p99_ms |-> zero, min_ms |-> zero, max_ms |-> zero]))>>
     ELSE <<Line("stats", name, s)>>
print_stats(name, values_ns) ==
  LET s == stats_ms(values_ns)
  IN IF s = None THEN <<Line("no data", name, None)>>
     ELSE <<Line("stats", name, s)>>

(* ---------------------------- group ranking ---------------------------- *)
Score(s, sort_by) ==
  CASE sort_by = "avg" -> s.avg_ms
    [] sort_by = "p50" -> s.p50_ms
    [] sort_by = "p90" -> s.p90_ms
    [] sort_by = "p99" -> s.p99_ms
    [] sort_by = "max" -> s.max_ms
    [] OTHER -> s.p90_ms

\* r1 sorts no later than r2 under key (-score, label); rows are <<score, k, s>>.
RowLE_score_only(r1, r2) == ~RatLess(r1[1], r2[1])
RowLE(r1, r2) ==
  \/ RatLess(r2[1], r1[1])
  \/ RatEq(r1[1], r2[1]) /\ (r1[2] = r2[2] \/ StrLess(r1[2], r2[2]))

\* rows.sort(key=...): stable.
InsertRow(s, r) ==
  LET k == Cardinality({i \in 1..Len(s) : RowLE(s[i], r)})
  IN SubSeq(s, 1, k) \o <<r>> \o SubSeq(s, k + 1, Len(s))

\* The loop over per_group.items(): one row per group with a non-empty list.
RECURSIVE RowsLoop(_, _, _, _)
RowsLoop(per_group, sort_by, i, rows) ==
  IF i > Len(per_group) THEN rows
  ELSE LET s == stats_ms(per_group[i][2])
       IN RowsLoop(per_group, sort_by, i + 1,
                   IF s = None THEN rows
                   ELSE Append(rows, <<Score(s[1], sort_by), per_group[i][1], s[1]>>))

RECURSIVE SortRowsLoop(_, _, _)
SortRowsLoop(rows, i, acc) ==
  IF i > Len(rows) THEN acc ELSE SortRowsLoop(rows, i + 1, InsertRow(acc, rows[i]))

\* The rows list of _print_group_table after sorting and truncation.
RankedRows(per_group, limit, sort_by) ==
  LET rows == SortRowsLoop(RowsLoop(per_group, sort_by, 1, <<>>), 1, <<>>)
  IN SubSeq(rows, 1, Min(limit, Len(rows)))

print_group_table(title, per_group, limit, sort_by) ==
  IF Len(per_group) = 0 THEN <<>>
  ELSE LET rows == RankedRows(per_group, limit, sort_by)
       IN <<Line("title", title, None), Line("header", title, None)>>
          \o [i \in 1..Len(rows) |-> Line("row", rows[i][2], Some(rows[i][3]))]

(* ----------------------- key-matched correlators ----------------------- *)
key_emit_tx(e) ==
  LET frag_id == get(e, "fragId")
      idx == geti(e, "idx")
  IN IF frag_id = None \/ idx = None THEN None
     ELSE Some(<<frag_id[1], idx[1]>>)

match_key(e) ==
  LET addr == get(e, "addr")
      prio == get(e, "priority")
      transfer_id == get(e, "transferId")
      frag_id == get(e, "fragId")
      idx == geti(e, "idx")
  IN IF addr = None \/ prio = None THEN None
     ELSE IF frag_id # None /\ idx # None
     THEN Some(<<addr[1], prio[1], transfer_id, frag_id[1], idx[1]>>)
     ELSE Some(<<addr[1], prio[1], transfer_id>>)

\* The key-derivation callables handed to the generic matcher, by name.
key_fid(e) == get(e, "fid")
MakeKey(make_key, e) ==
  CASE make_key = "key_emit_tx" -> key_emit_tx(e)
    [] make_key = "_match_key" -> match_key(e)
    [] make_key = "fid" -> key_fid(e)

\* Body of the first loop of _group_delays_by_key for one event.
group_scan_step(acc, e, ev_start, ev_end, make_key) ==
  LET k == MakeKey(make_key, e)
  IN IF e.ev \notin {ev_start, ev_end} THEN acc
     ELSE IF k = None THEN acc
     ELSE IF e.ev = ev_start
     THEN LET prev == DictGet(acc.start_t, k[1])
          IN IF prev = None \/ e.t < prev[1]
             THEN [acc EXCEPT !.start_t = DictPut(@, k[1], e.t)] ELSE acc
     ELSE LET prev == DictGet(acc.end_t, k[1])
          IN IF prev = None \/ e.t < prev[1]
             THEN [acc EXCEPT !.end_t = DictPut(@, k[1], e.t)] ELSE acc

RECURSIVE group_scan(_, _, _, _, _, _)
group_scan(evs, ev_start, ev_end, make_key, i, acc) ==
  IF i > Len(evs) THEN acc
  ELSE group_scan(evs, ev_start, ev_end, make_key, i + 1,
                  group_scan_step(acc, evs[i], ev_start, ev_end, make_key))

\* Body of the second loop for one item (k, t0) of start_t. The per-group label
\* str(k) is the repr of the key tuple, which is injective; the model labels the
\* group by k.
group_join_step(acc, k, t0, end_t) ==
  LET t1 == DictGet(end_t, k)
  IN IF t1 = None THEN acc
     ELSE IF t1[1] - t0 < 0 THEN acc
     ELSE [all_delays |-> Append(acc.all_delays, t1[1] - t0),
           per |-> DictAppend(acc.per, k, t1[1] - t0)]

RECURSIVE group_join(_, _, _, _)
group_join(start_t, end_t, j, acc) ==
  IF j > Len(start_t) THEN acc
  ELSE group_join(start_t, end_t, j + 1,
                  group_join_step(acc, start_t[j][1], start_t[j][2], end_t))

\* Generic matcher; make_key names the callable. Returns all_delays and per.
group_delays_by_key(evs, ev_start, ev_end, make_key) ==
  LET d == group_scan(evs, ev_start, ev_end, make_key, 1,
                      [start_t |-> <<>>, end_t |-> <<>>])
  IN group_join(d.start_t, d.end_t, 1, [all_delays |-> <<>>, per |-> <<>>])

\* analyze_fragment_queue_wait: earliest frag_emit and ble_tx_call per (fragId, idx).
fragment_scan_step(acc, e) ==
  LET k == key_emit_tx(e)
  IN IF e.ev \notin {"frag_emit", "ble_tx_call"} THEN acc
     ELSE IF k = None THEN acc
     ELSE IF e.ev = "frag_emit"
     THEN LET prev == DictGet(acc.emit_t, k[1])
          IN IF prev = None \/ e.t < prev[1]
             THEN [acc EXCEPT !.emit_t = DictPut(@, k[1], e.t)] ELSE acc
     ELSE LET prev == DictGet(acc.tx_t, k[1])
          IN IF prev = None \/ e.t < prev[1]
             THEN [acc EXCEPT !.tx_t = DictPut(@, k[1], e.t)] ELSE acc

RECURSIVE fragment_scan(_, _, _)
fragment_scan(evs, i, acc) ==
  IF i > Len(evs) THEN acc
  ELSE fragment_scan(evs, i + 1, fragment_scan_step(acc, evs[i]))

\* The tx_addr loop: the addr of a ble_tx_call, joined via its key.
fragment_addr_step(tx_addr, e) ==
  LET k == key_emit_tx(e)
      addr == get(e, "addr")
  IN IF e.ev # "ble_tx_call" THEN tx_addr
     ELSE IF k = None THEN tx_addr
     ELSE IF addr # None THEN DictPut(tx_addr, k[1], addr[1])
     ELSE tx_addr

RECURSIVE fragment_addrs(_, _, _)
fragment_addrs(evs, i, tx_addr) ==
  IF i > Len(evs) THEN tx_addr
  ELSE fragment_addrs(evs, i + 1, fragment_addr_step(tx_addr, evs[i]))

fragment_join_step_unsent_as_zero(acc, k, t_emit, tx_t, tx_addr) ==
  LET t_tx == DictGet(tx_t, k)
      d == IF t_tx = None THEN 0 ELSE t_tx[1] - t_emit
      addr == IF DictGet(tx_addr, k) = None THEN "(unknown)" ELSE DictGet(tx_addr, k)[1]
  IN IF d < 0 THEN acc
     ELSE [delays |-> Append(acc.delays, d), per_addr |-> DictAppend(acc.per_addr, addr, d)]
fragment_join_step(acc, k, t_emit, tx_t, tx_addr) ==
  LET t_tx == DictGet(tx_t, k)
      a == DictGet(tx_addr, k)
      addr == IF a = None THEN "(unknown)" ELSE a[1]
  IN IF t_tx = None THEN acc
     ELSE IF t_tx[1] - t_emit < 0 THEN acc
     ELSE [delays |-> Append(acc.delays, t_tx[1] - t_emit),
           per_addr |-> DictAppend(acc.per_addr, addr, t_tx[1] - t_emit)]

RECURSIVE fragment_join(_, _, _, _, _)
fragment_join(emit_t, tx_t, tx_addr, j, acc) ==
  IF j > Len(emit_t) THEN acc
  ELSE fragment_join(emit_t, tx_t, tx_addr, j + 1,
                     fragment_join_step(acc, emit_t[j][1], emit_t[j][2], tx_t, tx_addr))

\* The delays and the per-addr mapping of analyze_fragment_queue_wait.
fragment_queue_delays(evs) ==
  LET d == fragment_scan(evs, 1, [emit_t |-> <<>>, tx_t |-> <<>>])
  IN fragment_join(d.emit_t, d.tx_t, fragment_addrs(evs, 1, <<>>), 1,
                   [delays |-> <<>>, per_addr |-> <<>>])

analyze_fragment_queue_wait(evs) ==
  LET r == fragment_queue_delays(evs)
  IN [deltas |-> ("emit -> ble_tx_call" :> r.delays),
      groups |-> ("Fragment send queue by addr" :> r.per_addr),
      out |-> IF Len(r.delays) = 0 THEN <<>>
              ELSE <<Line("section", "Fragment send queue", None)>>
                   \o print_stats("emit -> ble_tx_call", r.delays)
                   \o print_group_table("Fragment send queue by addr", r.per_addr, 8, "p90")]

\* analyze_scheduler_queue_delay: earliest sched_enq and sched_deq per key.
scheduler_scan_step_latest(acc, e) ==
  LET k == match_key(e)
  IN IF e.ev \notin {"sched_enq", "sched_deq"} THEN acc
     ELSE IF k = None THEN acc
     ELSE IF e.ev = "sched_enq" THEN [acc EXCEPT !.enq = DictPut(@, k[1], e.t)]
     ELSE [acc EXCEPT !.deq = DictPut(@, k[1], e.t)]

scheduler_scan_step(acc, e) ==
  LET k == match_key(e)
  IN IF e.ev \notin {"sched_enq", "sched_deq"} THEN acc
     ELSE IF k = None THEN acc
     ELSE IF e.ev = "sched_enq"
     THEN LET prev == DictGet(acc.enq, k[1])
          IN IF prev = None \/ e.t < prev[1]
             THEN [acc EXCEPT !.enq = DictPut(@, k[1], e.t)] ELSE acc
     ELSE LET prev == DictGet(acc.deq, k[1])
          IN IF prev = None \/ e.t < prev[1]
             THEN [acc EXCEPT !.deq = DictPut(@, k[1], e.t)] ELSE acc

RECURSIVE scheduler_scan(_, _, _)
scheduler_scan(evs, i, acc) ==
  IF i > Len(evs) THEN acc
  ELSE scheduler_scan(evs, i + 1, scheduler_scan_step(acc, evs[i]))

scheduler_join_step_keep_negative(acc, k, t_enq, deq) ==
  LET t_deq == DictGet(deq, k)
  IN IF t_deq = None THEN acc
     ELSE [delays |-> Append(acc.delays, t_deq[1] - t_enq),
           per_addr |-> DictAppend(acc.per_addr, k[1], t_deq[1] - t_enq),
           per_prio |-> DictAppend(acc.per_prio, k[2], t_deq[1] - t_enq)]

\* Body of the second loop for one item (k, t_enq) of enq; str of a str is the str.
scheduler_join_step(acc, k, t_enq, deq) ==
  LET t_deq == DictGet(deq, k)
      addr == IF Len(k) >= 1 THEN k[1] ELSE "(unknown)"
      prio == IF Len(k) >= 2 THEN k[2] ELSE "(unknown)"
  IN IF t_deq = None THEN acc
     ELSE IF t_deq[1] - t_enq < 0 THEN acc
     ELSE [delays |-> Append(acc.delays, t_deq[1] - t_enq),
           per_addr |-> DictAppend(acc.per_addr, addr, t_deq[1] - t_enq),
           per_prio |-> DictAppend(acc.per_prio, prio, t_deq[1] - t_enq)]

RECURSIVE scheduler_join(_, _, _, _)
scheduler_join(enq, deq, j, acc) ==
  IF j > Len(enq) THEN acc
  ELSE scheduler_join(enq, deq, j + 1, scheduler_join_step(acc, enq[j][1], enq[j][2], deq))

\* The delays and the per-addr and per-priority mappings.
scheduler_queue_delays_accumulating(evs) ==
  LET d == scheduler_scan(evs, 1, [enq |-> <<>>, deq |-> <<>>])
  IN scheduler_join(d.enq, d.deq, 1,
                    [delays |-> IF "enq -> deq" \in DOMAIN deltas
                                THEN deltas["enq -> deq"] ELSE <<>>,
                     per_addr |-> <<>>, per_prio |-> <<>>])
scheduler_queue_delays(evs) ==
  LET d == scheduler_scan(evs, 1, [enq |-> <<>>, deq |-> <<>>])
  IN scheduler_join(d.enq, d.deq, 1,
                    [delays |-> <<>>, per_addr |-> <<>>, per_prio |-> <<>>])

analyze_scheduler_queue_delay(evs) ==
  LET r == scheduler_queue_delays(evs)
  IN [deltas |-> ("enq -> deq" :> r.delays),
      groups |-> ("Scheduler queue by priority" :> r.per_prio)
                 @@ ("Scheduler queue by addr" :> r.per_addr),
      out |-> IF Len(r.delays) = 0 THEN <<>>
              ELSE <<Line("section", "Scheduler queue", None)>>
                   \o print_stats("enq -> deq", r.delays)
                   \o print_group_table("Scheduler queue by priority", r.per_prio, 6, "p90")
                   \o print_group_table("Scheduler queue by addr", r.per_addr, 8, "p90")]

(* ------------------------ first-by-kind analyses ----------------------- *)
\* Optional[Event]: the first event of kind ev in list order.
first_by_ev(evs, ev) ==
  IF \E i \in 1..Len(evs) : evs[i].ev = ev
  THEN LET i == CHOOSE i \in 1..Len(evs) :
                  evs[i].ev = ev /\ \A j \in 1..(i - 1) : evs[j].ev # ev
       IN Some(evs[i])
  ELSE None

RECURSIVE IndexLoop(_, _, _, _)
IndexLoop(evs, key, i, idx) ==
  IF i > Len(evs) THEN idx
  ELSE LET v == get(evs[i], key)
       IN IndexLoop(evs, key, i + 1,
                    IF v = None THEN idx ELSE DictAppend(idx, v[1], evs[i]))
build_index(evs, key) == IndexLoop(evs, key, 1, <<>>)

\* The delta list one "if a and b: xs.append(b.t - a.t)" line builds over the
\* groups of an index, in the index's order (an Event is always truthy).
RECURSIVE PairLoop(_, _, _, _, _)
PairLoop(index, ev_a, ev_b, i, xs) ==
  IF i > Len(index) THEN xs
  ELSE LET a == first_by_ev(index[i][2], ev_a)
           b == first_by_ev(index[i][2], ev_b)
       IN PairLoop(index, ev_a, ev_b, i + 1,
                   IF a # None /\ b # None THEN Append(xs, b[1].t - a[1].t) ELSE xs)
PairDeltas(index, ev_a, ev_b) == PairLoop(index, ev_a, ev_b, 1, <<>>)

analyze_sender_by_fid(evs) ==
  LET by_fid == build_index(evs, "fid")
      cam_to_enc == PairDeltas(by_fid, "cam_frame", "enc_out")
      enc_to_payload == PairDeltas(by_fid, "enc_out", "video_payload")
      payload_to_mesh_call == PairDeltas(by_fid, "video_payload", "mesh_send_call")
  IN [deltas |-> ("cam_frame -> enc_out" :> cam_to_enc)
                 @@ ("enc_out -> video_payload" :> enc_to_payload)
                 @@ ("video_payload -> mesh_send_call" :> payload_to_mesh_call),
      groups |-> <<>>,
      out |-> <<Line("section", "Sender pipeline", None)>>
              \o print_stats("cam_frame -> enc_out", cam_to_enc)
              \o print_stats("enc_out -> video_payload", enc_to_payload)
              \o print_stats("video_payload -> mesh_send_call", payload_to_mesh_call)]

analyze_receiver_by_seq(evs) ==
  LET by_seq == build_index(evs, "seq")
      rx_to_dec == PairDeltas(by_seq, "rx_video", "dec_in")
      dec_to_render == PairDeltas(by_seq, "dec_in", "render_cb")
  IN [deltas |-> ("rx_video -> dec_in" :> rx_to_dec)
                 @@ ("dec_in -> render_cb" :> dec_to_render),
      groups |-> <<>>,
      out |-> <<Line("section", "Receiver pipeline", None)>>
              \o print_stats("rx_video -> dec_in", rx_to_dec)
              \o print_stats("dec_in -> render_cb", dec_to_render)]

analyze_fragments_by_id(evs) ==
  LET by_frag == build_index(evs, "fragId")
      create_to_split == PairDeltas(by_frag, "frag_create", "frag_split")
      split_to_first_emit == PairDeltas(by_frag, "frag_split", "frag_emit")
      first_reasm_add_to_done == PairDeltas(by_frag, "reasm_add", "reasm_done")
  IN [deltas |-> ("frag_create -> frag_split" :> create_to_split)
                 @@ ("frag_split -> frag_emit(first)" :> split_to_first_emit)
                 @@ ("reasm_add(first) -> reasm_done" :> first_reasm_add_to_done),
      groups |-> <<>>,
      out |-> IF Len(create_to_split) = 0 /\ Len(split_to_first_emit) = 0
                 /\ Len(first_reasm_add_to_done) = 0
              THEN <<>>
              ELSE <<Line("section", "Fragmentation/Reassembly", None)>>
                   \o print_stats("frag_create -> frag_split", create_to_split)
                   \o print_stats("frag_split -> frag_emit(first)", split_to_first_emit)
                   \o print_stats("reasm_add(first) -> reasm_done", first_reasm_add_to_done)]

(* ---------------------------- role inference --------------------------- *)
RECURSIVE CountLoop(_, _, _)
CountLoop(evs, i, counts) ==
  IF i > Len(evs) THEN counts
  ELSE LET c == DictGet(counts, evs[i].ev)
       IN CountLoop(evs, i + 1,
                    DictPut(counts, evs[i].ev, (IF c = None THEN 0 ELSE c[1]) + 1))
build_event_counts(evs) == CountLoop(evs, 1, <<>>)

sender_markers == {"cam_frame", "enc_out", "video_payload", "mesh_send_call", "tx_video"}
receiver_markers == {"rx_video", "dec_in", "render_cb"}
relay_markers ==
  {"relay_rx", "relay_tx", "mesh_relay", "mesh_forward", "forward_video", "route_forward",
   "sfwd"}

\* sum(counts.get(k, 0) for k in markers)
RECURSIVE MarkerScore(_, _)
MarkerScore(counts, markers) ==
  IF markers = {} THEN 0
  ELSE LET k == CHOOSE x \in markers : TRUE
           c == DictGet(counts, k)
       IN (IF c = None THEN 0 ELSE c[1]) + MarkerScore(counts, markers \ {k})

infer_role_relay_ignored(counts) ==
  LET has_sender == MarkerScore(counts, sender_markers) > 0
      has_receiver == MarkerScore(counts, receiver_markers) > 0
  IN IF has_sender /\ has_receiver THEN "both"
     ELSE IF has_sender THEN "sender"
     ELSE IF has_receiver THEN "receiver"
     ELSE IF (\E k \in DictKeys(counts) : startswith(k, "reasm_"))
             /\ (\E k \in DictKeys(counts) : startswith(k, "frag_"))
     THEN "relay"
     ELSE "unknown"

infer_role(counts) ==
  LET sender_score == MarkerScore(counts, sender_markers)
      receiver_score == MarkerScore(counts, receiver_markers)
      relay_score == MarkerScore(counts, relay_markers)
      has_sender == sender_score > 0
      has_receiver == receiver_score > 0
  IN IF has_sender /\ has_receiver THEN "both"
     ELSE IF has_sender THEN "sender"
     ELSE IF has_receiver
     THEN IF relay_score > 0 /\ ~has_sender THEN "relay" ELSE "receiver"
     ELSE IF (\E k \in DictKeys(counts) : startswith(k, "reasm_"))
             /\ (\E k \in DictKeys(counts) : startswith(k, "frag_"))
     THEN "relay"
     ELSE "unknown"

(* ------------------------------- report -------------------------------- *)
\* kv1 sorts no later than kv2 under key (-count, ev); items are <<ev, count>>.
TopLE(kv1, kv2) ==
  \/ kv1[2] > kv2[2]
  \/ kv1[2] = kv2[2] /\ (kv1[1] = kv2[1] \/ StrLess(kv1[1], kv2[1]))

InsertTop(s, kv) ==
  LET k == Cardinality({i \in 1..Len(s) : TopLE(s[i], kv)})
  IN SubSeq(s, 1, k) \o <<kv>> \o SubSeq(s, k + 1, Len(s))

RECURSIVE TopLoop(_, _, _)
TopLoop(counts, i, acc) ==
  IF i > Len(counts) THEN acc ELSE TopLoop(counts, i + 1, InsertTop(acc, counts[i]))

print_top_events(counts, limit) ==
  IF Len(counts) = 0 THEN <<>>
  ELSE LET all == TopLoop(counts, 1, <<>>)
           top == SubSeq(all, 1, Min(limit, Len(all)))
       IN <<Line("top title", "Top events", Some([count |-> Len(top)]))>>
          \o [i \in 1..Len(top) |-> Line("top", top[i][1], Some([count |-> top[i][2]]))]

\* summarize_file after parsing: the header, then the five analyses in order.
summarize_file(evs) ==
  LET counts == build_event_counts(evs)
      role == infer_role(counts)
      sender == analyze_sender_by_fid(evs)
      receiver == analyze_receiver_by_seq(evs)
      fragments == analyze_fragments_by_id(evs)
      scheduler == analyze_scheduler_queue_delay(evs)
      queue == analyze_fragment_queue_wait(evs)
  IN [counts |-> counts,
      role |-> role,
      deltas |-> sender.deltas @@ receiver.deltas @@ fragments.deltas
                 @@ scheduler.deltas @@ queue.deltas,
      groups |-> scheduler.groups @@ queue.groups,
      out |-> <<Line("file", "fp", None),
                Line("role", role, None),
                Line("events", "events", Some([count |-> Len(evs)]))>>
              \o print_top_events(counts, 15)
              \o sender.out \o receiver.out \o fragments.out \o scheduler.out \o queue.out]

(* --------------------------------- main -------------------------------- *)
\* The file system main runs on: two log files, a folder "logs" with one log
\* file, a folder "d", and nothing else. The working directory is /cwd.
FileText(path) ==
  CASE path = "/cwd/a.log" -> <<"D/latency: ev=cam_frame t=0 fid=7",
                                "D/latency: ev=enc_out t=1 fid=7">>
    [] path = "/cwd/c.log" -> <<"no such marker here">>
    [] path = "/cwd/logs/x.log" -> <<"D/latency: ev=rx_video t=0 seq=1">>
    [] OTHER -> <<>>
IsFile(path) == path \in {"/cwd/a.log", "/cwd/c.log", "/cwd/logs/x.log"}
IsDir(path) == path \in {"/cwd/d", "/cwd/logs"}

\* Path.resolve(): the absolute path, a leading "./" dropped.
resolve(p) == "/cwd/" \o (IF startswith(p, "./") THEN SubSeq(p, 3, Len(p)) ELSE p)
\* Path.exists()
exists(p) == IsFile(resolve(p)) \/ IsDir(resolve(p))

\* iter_log_files(dir_path): the *.log files of the folder, sorted.
iter_log_files(dir_path) ==
  IF ~exists(dir_path) \/ ~IsDir(resolve(dir_path)) THEN <<>>
  ELSE IF resolve(dir_path) = "/cwd/logs" THEN <<"logs/x.log">>
  ELSE <<>>

\* The de-duplication loop of main, one file at a time.
dedup_step_keep_all(acc, f) ==
  [seen |-> acc.seen \cup {resolve(f)}, uniq |-> Append(acc.uniq, f)]
dedup_step(acc, f) ==
  IF resolve(f) \in acc.seen THEN acc
  ELSE [seen |-> acc.seen \cup {resolve(f)}, uniq |-> Append(acc.uniq, f)]

RECURSIVE DedupLoop(_, _, _)
DedupLoop(files, i, acc) ==
  IF i > Len(files) THEN acc.uniq ELSE DedupLoop(files, i + 1, dedup_step(acc, files[i]))

\* parse_latency_lines(fp) on a readable file.
RECURSIVE ParseLoop(_, _, _)
ParseLoop(text, i, evs) ==
  IF i > Len(text) THEN evs ELSE ParseLoop(text, i + 1, evs \o parse_line(text[i]))
parse_latency_lines(fp) == ParseLoop(FileText(resolve(fp)), 1, <<>>)

(* ---------------------------- latency_test.py --------------------------- *)
\* A log timestamp is [t |-> milliseconds, src |-> the log file it was read from].
EVENT_KEYWORDS_OUT ==
  << <<"capture_start", "Start capture">>,
     <<"capture_end", "Captured audio frame">>,
     <<"encoding_start", "Encoding started">>,
     <<"encoding_end", "Encoding finished">>,
     <<"sending_start", "Calling meshService.sendVoice">>,
     <<"sending_end", "meshService.sendVoice returned">> >>

EVENT_KEYWORDS_IN ==
  << <<"receive_start", "handleIncomingAudio">>,
     <<"decoding_start", "Decoding started">>,
     <<"decoding_end", "Decoded voice frame">>,
     <<"enqueue_time", "Enqueued packet">>,
     <<"dequeue_time", "Dequeued packet">>,
     <<"play_start", "Playback started">>,
     <<"play_end", "Played PCM">>,
     <<"voice_ack", "Received VOICE_ACK">> >>

\* The first keyword of the table that occurs in msg: Optional key.
FirstKeyword(keywords, msg) ==
  LET hits == {i \in 1..Len(keywords) : Contains(msg, keywords[i][2])}
  IN IF hits = {} THEN None
     ELSE Some(keywords[CHOOSE i \in hits : \A j \in hits : i <= j][1])

\* outgoing.setdefault(seq, {})[key] = ts
MapSet(map, seq, key, ts) ==
  LET inner == DictGet(map, seq)
  IN DictPut(map, seq, DictPut(IF inner = None THEN <<>> ELSE inner[1], key, ts))

\* The body of the loop of parse_log for one line whose timestamp parsed: msg is
\* the message text, seq the Optional number after "seq=".
parse_log_line(maps, msg, seq, ts) ==
  IF seq = None THEN maps
  ELSE LET out_key == FirstKeyword(EVENT_KEYWORDS_OUT, msg)
           in_key == FirstKeyword(EVENT_KEYWORDS_IN, msg)
       IN IF out_key # None
          THEN [maps EXCEPT !.outgoing = MapSet(@, seq[1], out_key[1], ts)]
          ELSE IF in_key # None
          THEN [maps EXCEPT !.incoming = MapSet(@, seq[1], in_key[1], ts)]
          ELSE IF Contains(msg, "Encoded voice frame")
          THEN [maps EXCEPT !.outgoing = MapSet(@, seq[1], "encoded", ts)]
          ELSE maps

\* (a - b).total_seconds() * 1000, with the sources of the two timestamps.
Elapsed(a, b) == [ms |-> a.t - b.t, srcs |-> {a.src, b.src}]

\* sorted(out_map.keys())
InsertSeq(s, x) ==
  LET k == Cardinality({i \in 1..Len(s) : s[i] <= x})
  IN SubSeq(s, 1, k) \o <<x>> \o SubSeq(s, k + 1, Len(s))
RECURSIVE SortedKeys(_, _, _)
SortedKeys(map, i, acc) ==
  IF i > Len(map) THEN acc ELSE SortedKeys(map, i + 1, InsertSeq(acc, map[i][1]))

NoDurations ==
  [cap_durs |-> <<>>, enc_durs |-> <<>>, send_api |-> <<>>, net_lat |-> <<>>,
   dec_durs |-> <<>>, jb |-> <<>>, play_durs |-> <<>>, e2e |-> <<>>, rtts |-> <<>>,
   total_matches |-> 0]

\* xs.append(o_or_i[b] - o_or_i[a]) when both keys are present.
Between(xs, m1, k1, m2, k2) ==
  IF DictHas(m1, k1) /\ DictHas(m2, k2)
  THEN Append(xs, Elapsed(DictGet(m1, k1)[1], DictGet(m2, k2)[1]))
  ELSE xs

\* The body of `for seq in seqs` of analyze_flow.
flow_step(acc, seq, out_map, in_map) ==
  LET o == DictGet(out_map, seq)[1]
      got == DictGet(in_map, seq)
      i == IF got = None THEN <<>> ELSE got[1]
      sender == [acc EXCEPT
                   !.cap_durs = Between(@, o, "capture_end", o, "capture_start"),
                   !.enc_durs = Between(@, o, "encoding_end", o, "encoding_start"),
                   !.send_api = Between(@, o, "sending_end", o, "sending_start")]
  IN IF i = <<>> THEN sender
     ELSE [sender EXCEPT
             !.total_matches = @ + 1,
             !.dec_durs = IF DictHas(i, "decoding_start") /\ DictHas(i, "decoding_end")
                          THEN Between(@, i, "decoding_end", i, "decoding_start")
                          ELSE Between(@, i, "decoding_end", i, "receive_start"),
             !.jb = Between(@, i, "dequeue_time", i, "enqueue_time"),
             !.play_durs = Between(@, i, "play_end", i, "play_start"),
             !.net_lat = Between(@, i, "receive_start", o, "sending_end"),
             !.e2e = Between(@, i, "play_end", o, "capture_end"),
             !.rtts = Between(@, i, "voice_ack", o, "sending_start")]

RECURSIVE FlowLoop(_, _, _, _, _)
FlowLoop(seqs, j, out_map, in_map, acc) ==
  IF j > Len(seqs) THEN acc
  ELSE FlowLoop(seqs, j + 1, out_map, in_map, flow_step(acc, seqs[j], out_map, in_map))

\* One printed statistic: its name as printed and the values it is computed from.
print_stat(flow, name, arr) == [flow |-> flow, name |-> name, arr |-> arr]

analyze_flow(name_from, name_to, out_map, in_map) ==
  LET flow == <<name_from, name_to>>
      d == FlowLoop(SortedKeys(out_map, 1, <<>>), 1, out_map, in_map, NoDurations)
  IN << print_stat(flow, "Capture duration", d.cap_durs),
        print_stat(flow, "Encoding latency", d.enc_durs),
        print_stat(flow, "Sending API overhead", d.send_api),
        print_stat(flow, "Network latency (recvStart - sendEnd) [requires synced clocks]",
                   d.net_lat),
        print_stat(flow, "Decoding latency", d.dec_durs),
        print_stat(flow, "Jitter buffer residency (dequeue - enqueue)", d.jb),
        print_stat(flow, "Playback duration", d.play_durs),
        print_stat(flow, "Total E2E (captureEnd -> playEnd) [requires synced clocks]", d.e2e),
        print_stat(flow, "RTT (sendStart -> VOICE_ACK)", d.rtts) >>

(* --------------------------- state machine ----------------------------- *)
Times == 0..MaxT

\* Events of the scheduler queue and of the fragment send queue: two fragment
\* keys (idx 0 and 1, the second never transmitted), one scheduler key.
KeyedUniverse ==
  {Event("frag_emit", t, Fields([fragId |-> "f1", idx |-> i])) :
     t \in Times, i \in {"0", "1"}}
  \cup {Event("ble_tx_call", t, Fields([fragId |-> "f1", idx |-> "0", addr |-> "A"])) :
     t \in Times}
  \cup {Event(ev, t, Fields([addr |-> "A", priority |-> "1", transferId |-> "x"])) :
     ev \in {"sched_enq", "sched_deq"}, t \in Times}

EmptyMap == [x \in {} |-> <<>>]

Init ==
  /\ events = <<>>
  /\ pc = "parse"
  /\ deltas = EmptyMap
  /\ groups = EmptyMap
  /\ out = <<>>
  /\ samples = <<>>
  /\ summary = <<>>
  /\ histogram = <<>>
  /\ verdict = None
  /\ table = <<>>
  /\ ranked = <<>>
  /\ lines = <<>>
  /\ argv = <<>>
  /\ uniq = <<>>
  /\ printed = <<>>
  /\ rc = None
  /\ devlogs = [dev \in {"A", "B"} |-> [outgoing |-> <<>>, incoming |-> <<>>, read |-> 0]]
  /\ flows = <<>>
  /\ runs = <<>>

\* parse_latency_lines appends the Event of one more line.
ParseLine(universe, max) ==
  /\ pc = "parse"
  /\ Len(events) < max
  /\ \E e \in universe : events' = Append(events, e)
  /\ UNCHANGED <<pc, deltas, groups, out, statsVars, roleVars, rankVars, parseVars, mainVars, flowVars, rerunVars>>

Run(r, next) ==
  /\ deltas' = r.deltas @@ deltas
  /\ groups' = r.groups @@ groups
  /\ out' = out \o r.out
  /\ pc' = next
  /\ UNCHANGED <<events, statsVars, roleVars, rankVars, parseVars, mainVars, flowVars, rerunVars>>

CallSchedulerQueueDelay ==
  /\ pc = "parse"
  /\ Run(analyze_scheduler_queue_delay(events), "done")

CallFragmentQueueWait ==
  /\ pc = "parse"
  /\ Run(analyze_fragment_queue_wait(events), "done")

CallGroupDelaysByKey ==
  /\ pc = "parse"
  /\ \/ LET r == group_delays_by_key(events, "frag_emit", "ble_tx_call", "key_emit_tx")
        IN Run([deltas |-> ("generic frag" :> r.all_delays),
                groups |-> ("generic frag" :> r.per), out |-> <<>>], "done")
     \/ LET r == group_delays_by_key(events, "sched_enq", "sched_deq", "_match_key")
        IN Run([deltas |-> ("generic sched" :> r.all_delays),
                groups |-> ("generic sched" :> r.per), out |-> <<>>], "done")

NextKeyed ==
  \/ ParseLine(KeyedUniverse, MaxEvents)
  \/ CallSchedulerQueueDelay
  \/ CallFragmentQueueWait
  \/ CallGroupDelaysByKey

SpecKeyed == Init /\ [][NextKeyed]_vars

\* Events of the sender, receiver and fragmentation pipelines: two frame ids, one
\* sequence number, one fragment id.
FirstUniverse ==
  {Event(ev, t, Fields([fid |-> f])) :
     ev \in {"cam_frame", "enc_out"}, t \in Times, f \in {"7", "8"}}
  \cup {Event(ev, t, Fields([seq |-> "1"])) : ev \in {"rx_video", "dec_in"}, t \in Times}
  \cup {Event(ev, t, Fields([fragId |-> "f1"])) :
     ev \in {"frag_create", "frag_split"}, t \in Times}

CallSenderByFid ==
  /\ pc = "parse"
  /\ Run(analyze_sender_by_fid(events), "done")

CallReceiverBySeq ==
  /\ pc = "parse"
  /\ Run(analyze_receiver_by_seq(events), "done")

CallFragmentsById ==
  /\ pc = "parse"
  /\ Run(analyze_fragments_by_id(events), "done")

NextFirst ==
  \/ ParseLine(FirstUniverse, MaxEvents)
  \/ CallSenderByFid
  \/ CallReceiverBySeq
  \/ CallFragmentsById

SpecFirst == Init /\ [][NextFirst]_vars

\* A caller hands stats_ms one more value: a delta in ns (the first-by-kind
\* analyses can hand it a negative one).
AddValue ==
  /\ summary = <<>>
  /\ Len(samples) < MaxValues
  /\ \E v \in -1..MaxNs : samples' = Append(samples, v)
  /\ UNCHANGED <<corrVars, summary, roleVars, rankVars, parseVars, mainVars, flowVars, rerunVars>>

CallStatsMs ==
  /\ summary = <<>>
  /\ summary' = <<stats_ms(samples)>>
  /\ UNCHANGED <<corrVars, samples, roleVars, rankVars, parseVars, mainVars, flowVars, rerunVars>>

NextStats ==
  \/ AddValue
  \/ CallStatsMs

SpecStats == Init /\ [][NextStats]_vars

\* Field-less events of every marker kind, of the fragmentation and reassembly
\* kinds, and of a kind outside every family.
RoleUniverse ==
  {Event(ev, 0, NoFields) :
     ev \in sender_markers \cup receiver_markers \cup relay_markers
            \cup {"frag_create", "frag_emit", "reasm_add", "reasm_done", "sched_enq"}}

\* The two lines of summarize_file that classify the source.
CallInferRole ==
  /\ pc = "parse"
  /\ verdict = None
  /\ histogram' = build_event_counts(events)
  /\ verdict' = Some(infer_role(histogram'))
  /\ pc' = "done"
  /\ UNCHANGED <<events, deltas, groups, out, statsVars, rankVars, parseVars, mainVars, flowVars, rerunVars>>

NextRole ==
  \/ ParseLine(RoleUniverse, MaxRoleEvents)
  \/ CallInferRole

SpecRole == Init /\ [][NextRole]_vars

\* Group labels, one a proper prefix of another.
Labels == {"A", "AB", "B"}
RECURSIVE DelayLists(_)
DelayLists(n) ==
  IF n = 0 THEN {<<>>}
  ELSE DelayLists(n - 1)
       \cup {Append(xs, v) : xs \in {ys \in DelayLists(n - 1) : Len(ys) = n - 1}, v \in {0, 1}}

\* A caller adds one more group to the mapping it will hand to _print_group_table.
\* Groups are added in ascending label order here; the other iteration orders of
\* the same mapping are enumerated where the ranking is checked.
AddGroup ==
  /\ ranked = <<>>
  /\ \E k \in {l \in Labels : \A j \in DictKeys(table) : StrLess(j, l)} :
       \E delays \in DelayLists(MaxGroupLen) :
          table' = Append(table, <<k, delays>>)
  /\ UNCHANGED <<corrVars, statsVars, roleVars, ranked, parseVars, mainVars, flowVars, rerunVars>>

CallPrintGroupTable ==
  /\ ranked = <<>>
  /\ \E sort_by \in {"avg", "p50", "p90", "p99", "max"} :
       \E limit \in {1, 8} :
          ranked' = <<sort_by, limit, print_group_table("by addr", table, limit, sort_by)>>
  /\ UNCHANGED <<corrVars, statsVars, roleVars, table, parseVars, mainVars, flowVars, rerunVars>>

NextRank ==
  \/ AddGroup
  \/ CallPrintGroupTable

SpecRank == Init /\ [][NextRank]_vars

\* One or two events of every pipeline the report covers, each with the fields
\* its analysis matches on.
ReportUniverse ==
  {Event(ev, t, Fields([fid |-> "7"])) : ev \in {"cam_frame", "enc_out"}, t \in Times}
  \cup {Event(ev, t, Fields([seq |-> "1"])) : ev \in {"rx_video", "dec_in"}, t \in Times}
  \cup {Event(ev, t, Fields([fragId |-> "f1"])) :
     ev \in {"frag_create", "frag_split"}, t \in Times}
  \cup {Event(ev, t, Fields([fragId |-> "f1", idx |-> "0", addr |-> "A"])) :
     ev \in {"frag_emit", "ble_tx_call"}, t \in Times}
  \cup {Event(ev, t, Fields([addr |-> "A", priority |-> "1", transferId |-> "x"])) :
     ev \in {"sched_enq", "sched_deq"}, t \in Times}

\* The rest of summarize_file once the lines of the file are parsed.
CallSummarizeFile ==
  /\ pc = "parse"
  /\ \E r \in {summarize_file(events)} :
        /\ histogram' = r.counts
        /\ verdict' = Some(r.role)
        /\ deltas' = r.deltas
        /\ groups' = r.groups
        /\ out' = r.out
  /\ pc' = "done"
  /\ UNCHANGED <<events, statsVars, rankVars, parseVars, mainVars, flowVars, rerunVars>>

Next ==
  \/ ParseLine(ReportUniverse, MaxReportEvents)
  \/ CallSummarizeFile

Spec == Init /\ [][Next]_vars

\* The lines a log file can hold: a prefix written by logcat or none, then up
\* to MaxTokens tokens separated by single spaces.
Prefixes == {"D/latency: ", "latency  ", ""}
Tokens == {"ev=a", "t=1", "t=x", "fid=7"}
RECURSIVE TokenLists(_)
TokenLists(n) ==
  IF n = 0 THEN {<<>>}
  ELSE TokenLists(n - 1)
       \cup {Append(ts, tok) : ts \in {us \in TokenLists(n - 1) : Len(us) = n - 1},
                               tok \in Tokens}
RECURSIVE Join(_, _, _)
Join(tokens, i, acc) ==
  IF i > Len(tokens) THEN acc
  ELSE Join(tokens, i + 1, IF i = 1 THEN tokens[i] ELSE acc \o " " \o tokens[i])
RawLine(line) == line.prefix \o Join(line.tokens, 1, "")

\* One more iteration of the loop of parse_latency_lines over the file's lines.
ReadLine ==
  /\ pc = "parse"
  /\ Len(lines) < MaxLines
  /\ \E prefix \in Prefixes :
       \E tokens \in TokenLists(MaxTokens) :
          LET line == [prefix |-> prefix, tokens |-> tokens]
          IN /\ lines' = Append(lines, line)
             /\ events' = events \o parse_line(RawLine(line))
  /\ UNCHANGED <<pc, deltas, groups, out, statsVars, roleVars, rankVars, mainVars, flowVars, rerunVars>>

NextParse == ReadLine

SpecParse == Init /\ [][NextParse]_vars

\* The paths a caller names on the command line.
Paths == {"a.log", "./a.log", "b.log", "c.log", "d", "logs/x.log"}
RECURSIVE PathLists(_)
PathLists(n) ==
  IF n = 0 THEN {<<>>}
  ELSE PathLists(n - 1)
       \cup {Append(ps, p) : ps \in {qs \in PathLists(n - 1) : Len(qs) = n - 1}, p \in Paths}

\* main up to the end of argument handling: files from --dir, then the logs.
CollectFiles ==
  /\ pc = "parse"
  /\ \E dir \in {None, Some("logs"), Some("nowhere")} :
       \E logs \in PathLists(MaxArgs) :
          argv' = (IF dir = None THEN <<>> ELSE iter_log_files(dir[1])) \o logs
  /\ pc' = "dedup"
  /\ UNCHANGED <<events, deltas, groups, out, statsVars, roleVars, rankVars, parseVars,
                 uniq, printed, rc, flowVars, rerunVars>>

\* The de-duplication loop and the test that follows it: ap.error exits with 2.
Deduplicate ==
  /\ pc = "dedup"
  /\ uniq' = DedupLoop(argv, 1, [seen |-> {}, uniq |-> <<>>])
  /\ IF uniq' = <<>>
     THEN rc' = Some(2) /\ pc' = "done"
     ELSE rc' = rc /\ pc' = "files"
  /\ UNCHANGED <<events, deltas, groups, out, statsVars, roleVars, rankVars, parseVars,
                 argv, printed, flowVars, rerunVars>>

\* One iteration of `for fp in uniq`: the warning, the report of the file, or
\* the error read_text raises on a path that exists and is not a readable file,
\* which nothing catches (exit status 1).
ProcessFile ==
  /\ pc = "files"
  /\ Len(printed) < Len(uniq)
  /\ LET fp == uniq[Len(printed) + 1]
     IN IF ~exists(fp)
        THEN /\ printed' = Append(printed, [text |-> "Missing file", path |-> fp, out |-> <<>>])
             /\ UNCHANGED <<pc, rc, flowVars, rerunVars>>
        ELSE IF ~IsFile(resolve(fp))
        THEN /\ rc' = Some(1)
             /\ pc' = "done"
             /\ UNCHANGED printed
        ELSE /\ \E r \in {summarize_file(parse_latency_lines(fp))} :
                  printed' = Append(printed, [text |-> "summary", path |-> fp, out |-> r.out])
             /\ UNCHANGED <<pc, rc, flowVars, rerunVars>>
  /\ UNCHANGED <<events, deltas, groups, out, statsVars, roleVars, rankVars, parseVars,
                 argv, uniq, flowVars, rerunVars>>

\* `return 0` after the loop.
Return ==
  /\ pc = "files"
  /\ Len(printed) = Len(uniq)
  /\ rc' = Some(0)
  /\ pc' = "done"
  /\ UNCHANGED <<events, deltas, groups, out, statsVars, roleVars, rankVars, parseVars,
                 argv, uniq, printed, flowVars, rerunVars>>

NextMain ==
  \/ CollectFiles
  \/ Deduplicate
  \/ ProcessFile
  \/ Return

SpecMain == Init /\ [][NextMain]_vars

\* The messages the instrumented application logs under the latency tag.
Messages ==
  {EVENT_KEYWORDS_OUT[i][2] : i \in 1..Len(EVENT_KEYWORDS_OUT)}
  \cup {EVENT_KEYWORDS_IN[i][2] : i \in 1..Len(EVENT_KEYWORDS_IN)}
  \cup {"Encoded voice frame", "Audio route changed"}

\* parse_log reads one more line of the log of device A or B.
ReadLogLine ==
  /\ flows = <<>>
  /\ devlogs["A"].read + devlogs["B"].read < MaxFlowLines
  /\ \E dev \in {"A", "B"} :
       \E msg \in Messages :
          \E seq \in {None, Some(1)} :
             \E t \in Times :
                devlogs' = [devlogs EXCEPT
                              ![dev] = [parse_log_line(@, msg, seq, [t |-> t, src |-> dev])
                                          EXCEPT !.read = @ + 1]]
  /\ UNCHANGED <<corrVars, statsVars, roleVars, rankVars, parseVars, mainVars, flows, rerunVars>>

\* The script body after the two logs are parsed: both flows.
CallAnalyzeFlows ==
  /\ flows = <<>>
  /\ flows' =
       (IF devlogs["A"].outgoing # <<>> /\ devlogs["B"].incoming # <<>>
        THEN analyze_flow("DeviceA", "DeviceB", devlogs["A"].outgoing, devlogs["B"].incoming)
        ELSE <<print_stat(<<"DeviceA", "DeviceB">>, "No complete data to analyze", <<>>)>>)
       \o (IF devlogs["B"].outgoing # <<>> /\ devlogs["A"].incoming # <<>>
           THEN analyze_flow("DeviceB", "DeviceA", devlogs["B"].outgoing, devlogs["A"].incoming)
           ELSE <<print_stat(<<"DeviceB", "DeviceA">>, "No complete data to analyze", <<>>)>>)
  /\ UNCHANGED <<corrVars, statsVars, roleVars, rankVars, parseVars, mainVars, devlogs, rerunVars>>

NextFlow ==
  \/ ReadLogLine
  \/ CallAnalyzeFlows

SpecFlow == Init /\ [][NextFlow]_vars

\* One event of each side of a sender pair, of the scheduler queue and of the
\* fragment send queue.
RerunUniverse ==
  {Event("cam_frame", 0, Fields([fid |-> "7"])),
   Event("enc_out", 1, Fields([fid |-> "7"])),
   Event("sched_enq", 0, Fields([addr |-> "A", priority |-> "1", transferId |-> "x"])),
   Event("sched_deq", 1, Fields([addr |-> "A", priority |-> "1", transferId |-> "x"])),
   Event("frag_emit", 0, Fields([fragId |-> "f1", idx |-> "0"])),
   Event("ble_tx_call", 1, Fields([fragId |-> "f1", idx |-> "0", addr |-> "A"]))}

Analyses == {"sender", "receiver", "fragments", "scheduler", "queue", "generic"}
Analysis(name, evs) ==
  CASE name = "sender" -> analyze_sender_by_fid(evs)
    [] name = "receiver" -> analyze_receiver_by_seq(evs)
    [] name = "fragments" -> analyze_fragments_by_id(evs)
    [] name = "scheduler" -> analyze_scheduler_queue_delay(evs)
    [] name = "queue" -> analyze_fragment_queue_wait(evs)
    [] name = "generic" ->
         LET r == group_delays_by_key(evs, "sched_enq", "sched_deq", "_match_key")
         IN [deltas |-> ("generic sched" :> r.all_delays),
             groups |-> ("generic sched" :> r.per), out |-> <<>>]

\* A caller that holds the parsed Event list calls one of the analyses, for the
\* first time or again, in any order.
CallAnalysis ==
  /\ pc \in {"parse", "again"}
  /\ Len(runs) < MaxRuns
  /\ \E name \in Analyses :
       \E r \in {Analysis(name, events)} :
          /\ deltas' = r.deltas @@ deltas
          /\ groups' = r.groups @@ groups
          /\ out' = out \o r.out
          /\ runs' = Append(runs, name)
  /\ pc' = "again"
  /\ UNCHANGED <<events, statsVars, roleVars, rankVars, parseVars, mainVars, flowVars>>

NextRerun ==
  \/ ParseLine(RerunUniverse, MaxRerunEvents)
  \/ CallAnalysis

SpecRerun == Init /\ [][NextRerun]_vars

\* One fragment key whose transmit calls carry the address A, the address B or
\* no address.
FragQueueUniverse ==
  {Event("frag_emit", t, Fields([fragId |-> "f1", idx |-> "0"])) : t \in Times}
  \cup {Event("ble_tx_call", t, Fields([fragId |-> "f1", idx |-> "0", addr |-> a])) :
     t \in Times, a \in {"A", "B"}}
  \cup {Event("ble_tx_call", t, Fields([fragId |-> "f1", idx |-> "0"])) : t \in Times}

NextFragQueue ==
  \/ ParseLine(FragQueueUniverse, MaxEvents)
  \/ CallFragmentQueueWait

SpecFragQueue == Init /\ [][NextFragQueue]_vars

\* Scheduler events of one packet, complete or without one of addr, priority
\* and transferId.
SchedKeyUniverse ==
  {Event(ev, t, f) :
     ev \in {"sched_enq", "sched_deq"}, t \in Times,
     f \in {Fields([addr |-> "A", priority |-> "1", transferId |-> "x"]),
            Fields([addr |-> "A", priority |-> "1"]),
            Fields([priority |-> "1", transferId |-> "x"]),
            Fields([addr |-> "A", transferId |-> "x"])}}

NextSchedKey ==
  \/ ParseLine(SchedKeyUniverse, MaxEvents)
  \/ CallSchedulerQueueDelay

SpecSchedKey == Init /\ [][NextSchedKey]_vars

(* ------------------- what a correlator should compute ------------------ *)
\* Set-based reading of one stage pair (ev_start, ev_end, make_key) over evs.
Matching(evs, ev, make_key, k) ==
  {i \in 1..Len(evs) : evs[i].ev = ev /\ MakeKey(make_key, evs[i]) = Some(k)}
StageKeys(evs, ev_start, ev_end, make_key) ==
  {MakeKey(make_key, evs[i])[1] :
     i \in {j \in 1..Len(evs) : evs[j].ev \in {ev_start, ev_end} /\ MakeKey(make_key, evs[j]) # None}}
Earliest(evs, ev, make_key, k) ==
  LET ts == {evs[i].t : i \in Matching(evs, ev, make_key, k)}
  IN CHOOSE t \in ts : \A u \in ts : t <= u
FirstPos(evs, ev, make_key, k) ==
  LET is == Matching(evs, ev, make_key, k)
  IN CHOOSE i \in is : \A j \in is : i <= j
BothSides(evs, ev_start, ev_end, make_key) ==
  {k \in StageKeys(evs, ev_start, ev_end, make_key) :
     /\ Matching(evs, ev_start, make_key, k) # {}
     /\ Matching(evs, ev_end, make_key, k) # {}}
KeyDelta(evs, ev_start, ev_end, make_key, k) ==
  Earliest(evs, ev_end, make_key, k) - Earliest(evs, ev_start, make_key, k)
ValidKeys(evs, ev_start, ev_end, make_key) ==
  {k \in BothSides(evs, ev_start, ev_end, make_key) :
     KeyDelta(evs, ev_start, ev_end, make_key, k) >= 0}
\* The deltas of the valid keys, in the order of each key's first start event.
ExpectedDelays(evs, ev_start, ev_end, make_key) ==
  LET valid == ValidKeys(evs, ev_start, ev_end, make_key)
      rank(k) == Cardinality({k2 \in valid :
                   FirstPos(evs, ev_start, make_key, k2) < FirstPos(evs, ev_start, make_key, k)})
  IN [j \in 1..Cardinality(valid) |->
        KeyDelta(evs, ev_start, ev_end, make_key, CHOOSE k \in valid : rank(k) = j - 1)]

AllNonNegative(xs) == \A i \in 1..Len(xs) : xs[i] >= 0
GroupsNonNegative(d) == \A i \in 1..Len(d) : AllNonNegative(d[i][2])

\* C1: every delta the key-matched correlators (_group_delays_by_key,
\* analyze_scheduler_queue_delay, analyze_fragment_queue_wait) place in the overall
\* delay list and in every per-group list is >= 0, and a key whose earliest end is
\* before its earliest start contributes no delta: there are no more deltas than
\* keys with both sides and a non-negative difference, and such a key has no group
\* in the generic correlator's mapping.
C1_KeyedDeltasNonNegative ==
  /\ \A name \in DOMAIN deltas : AllNonNegative(deltas[name])
  /\ \A name \in DOMAIN groups : GroupsNonNegative(groups[name])
  /\ "enq -> deq" \in DOMAIN deltas =>
       Len(deltas["enq -> deq"])
         <= Cardinality(ValidKeys(events, "sched_enq", "sched_deq", "_match_key"))
  /\ "emit -> ble_tx_call" \in DOMAIN deltas =>
       Len(deltas["emit -> ble_tx_call"])
         <= Cardinality(ValidKeys(events, "frag_emit", "ble_tx_call", "key_emit_tx"))
  /\ "generic frag" \in DOMAIN deltas =>
       /\ Len(deltas["generic frag"])
            <= Cardinality(ValidKeys(events, "frag_emit", "ble_tx_call", "key_emit_tx"))
       /\ DictKeys(groups["generic frag"])
            \subseteq ValidKeys(events, "frag_emit", "ble_tx_call", "key_emit_tx")
  /\ "generic sched" \in DOMAIN deltas =>
       /\ Len(deltas["generic sched"])
            <= Cardinality(ValidKeys(events, "sched_enq", "sched_deq", "_match_key"))
       /\ DictKeys(groups["generic sched"])
            \subseteq ValidKeys(events, "sched_enq", "sched_deq", "_match_key")

\* Some key has its earliest end before its earliest start.
EndBeforeStart(evs, ev_start, ev_end, make_key) ==
  \E k \in BothSides(evs, ev_start, ev_end, make_key) :
     KeyDelta(evs, ev_start, ev_end, make_key, k) < 0

C1_Witness ==
  /\ "enq -> deq" \in DOMAIN deltas
  /\ EndBeforeStart(events, "sched_enq", "sched_deq", "_match_key")
  /\ deltas["enq -> deq"] = <<>>

\* C3: earliest-timestamp policy. The delay list of a key-matched correlator is,
\* for the keys with both sides (and a non-negative difference, see C1) in the order
\* of their first start event, (minimum end timestamp) - (minimum start timestamp)
\* of the key; the generic correlator files exactly that one delta under the key.
\* The right-hand sides depend on the events only through sets of timestamps.
C3_EarliestTimestampPolicy ==
  /\ "enq -> deq" \in DOMAIN deltas =>
       deltas["enq -> deq"] = ExpectedDelays(events, "sched_enq", "sched_deq", "_match_key")
  /\ "emit -> ble_tx_call" \in DOMAIN deltas =>
       deltas["emit -> ble_tx_call"]
         = ExpectedDelays(events, "frag_emit", "ble_tx_call", "key_emit_tx")
  /\ "generic frag" \in DOMAIN deltas =>
       /\ deltas["generic frag"]
            = ExpectedDelays(events, "frag_emit", "ble_tx_call", "key_emit_tx")
       /\ \A k \in ValidKeys(events, "frag_emit", "ble_tx_call", "key_emit_tx") :
            DictGet(groups["generic frag"], k)
              = Some(<<KeyDelta(events, "frag_emit", "ble_tx_call", "key_emit_tx", k)>>)
  /\ "generic sched" \in DOMAIN deltas =>
       /\ deltas["generic sched"]
            = ExpectedDelays(events, "sched_enq", "sched_deq", "_match_key")
       /\ \A k \in ValidKeys(events, "sched_enq", "sched_deq", "_match_key") :
            DictGet(groups["generic sched"], k)
              = Some(<<KeyDelta(events, "sched_enq", "sched_deq", "_match_key", k)>>)

\* Two starts of one key, the later line carrying the earlier timestamp, and an
\* end: the delta is taken from the earlier start.
C3_Witness ==
  /\ "enq -> deq" \in DOMAIN deltas
  /\ Len(events) = 3
  /\ events[1].ev = "sched_enq" /\ events[1].t = 1
  /\ events[2].ev = "sched_enq" /\ events[2].t = 0
  /\ events[3].ev = "sched_deq" /\ events[3].t = 1
  /\ deltas["enq -> deq"] = <<1>>

(* --------------------- first-by-kind stage analyses --------------------- *)
FirstStageNames ==
  {"cam_frame -> enc_out", "enc_out -> video_payload", "video_payload -> mesh_send_call",
   "rx_video -> dec_in", "dec_in -> render_cb",
   "frag_create -> frag_split", "frag_split -> frag_emit(first)",
   "reasm_add(first) -> reasm_done"}

\* C2: in the sender (by fid), receiver (by seq) and fragmentation/reassembly (by
\* fragId) analyses every delta handed to the statistics step is >= 0; a pair whose
\* end-kind event has the smaller timestamp is discarded.
C2_FirstStageDeltasNonNegative ==
  \A name \in DOMAIN deltas \cap FirstStageNames :
     \A i \in 1..Len(deltas[name]) : deltas[name][i] >= 0

\* The fids with a cam_frame and an enc_out, in the order of their first event.
FidFirstPos(evs, f) ==
  LET is == {i \in 1..Len(evs) : get(evs[i], "fid") = Some(f)}
  IN CHOOSE i \in is : \A j \in is : i <= j

\* C4: for each fid with at least one cam_frame and one enc_out exactly one
\* cam_frame -> enc_out delta is produced, and it is the earliest enc_out timestamp
\* minus the earliest cam_frame timestamp of that fid, whatever the order of the
\* events in the log.
C4_SenderDeltaUsesEarliest ==
  "cam_frame -> enc_out" \in DOMAIN deltas =>
    LET both == BothSides(events, "cam_frame", "enc_out", "fid")
        rank(f) == Cardinality({g \in both : FidFirstPos(events, g) < FidFirstPos(events, f)})
    IN deltas["cam_frame -> enc_out"]
         = [j \in 1..Cardinality(both) |->
              KeyDelta(events, "cam_frame", "enc_out", "fid",
                       CHOOSE f \in both : rank(f) = j - 1)]

(* ------------------------------ statistics ------------------------------ *)
\* The millisecond value r is exactly ns nanoseconds.
IsMs(r, ns) == r.num * 1000000 = ns * r.den

\* C6: stats_ms returns nothing for the empty list, and for [x] a summary with
\* count 1 whose mean, p50, p90, p99, min and max all are x in milliseconds.
C6_StatsOfEmptyAndSingleton ==
  summary # <<>> =>
    /\ Len(samples) = 0 => summary[1] = None
    /\ Len(samples) = 1 =>
         /\ summary[1] # None
         /\ summary[1][1].count = 1
         /\ \A r \in {summary[1][1].avg_ms, summary[1][1].p50_ms, summary[1][1].p90_ms,
                      summary[1][1].p99_ms, summary[1][1].min_ms, summary[1][1].max_ms} :
              IsMs(r, samples[1])

C6_Witness ==
  /\ summary # <<>>
  /\ samples = <<1>>
  /\ summary[1] # None
  /\ summary[1][1].p99_ms.num = 1

\* C7: for a non-empty list the summary satisfies
\* min <= p50 <= p90 <= p99 <= max, and count is the length of the list.
C7_PercentileMonotonicity ==
  (summary # <<>> /\ Len(samples) > 0) =>
    /\ summary[1] # None
    /\ summary[1][1].count = Len(samples)
    /\ RatLE(summary[1][1].min_ms, summary[1][1].p50_ms)
    /\ RatLE(summary[1][1].p50_ms, summary[1][1].p90_ms)
    /\ RatLE(summary[1][1].p90_ms, summary[1][1].p99_ms)
    /\ RatLE(summary[1][1].p99_ms, summary[1][1].max_ms)

\* Six values given out of order whose p50, p90 and p99 are all different.
C7_Witness ==
  /\ summary # <<>>
  /\ Len(samples) = 6
  /\ samples[1] > samples[6]
  /\ RatLess(summary[1][1].p50_ms, summary[1][1].p90_ms)
  /\ RatLess(summary[1][1].p90_ms, summary[1][1].p99_ms)

\* k is p/100 * (n - 1) rounded to the nearest integer, a half going to the even
\* neighbour (Python's round), clamped to [0, n - 1].
IsNearestRank(k, p, n) ==
  LET dist == IF 100 * k >= p * (n - 1) THEN 100 * k - p * (n - 1)
              ELSE p * (n - 1) - 100 * k
  IN /\ k \in 0..(n - 1)
     /\ dist <= 50
     /\ dist = 50 => k % 2 = 0

\* v is the element at 0-based index k of the ascending-sorted xs.
IsSortedElementAt(xs, k, v) ==
  /\ \E i \in 1..Len(xs) : xs[i] = v
  /\ Cardinality({i \in 1..Len(xs) : xs[i] < v}) <= k
  /\ k < Cardinality({i \in 1..Len(xs) : xs[i] <= v})

ReportedIsNearestRank(r, p) ==
  \E k \in 0..(Len(samples) - 1) :
     /\ IsNearestRank(k, p, Len(samples))
     /\ \E v \in {samples[i] : i \in 1..Len(samples)} :
          IsMs(r, v) /\ IsSortedElementAt(samples, k, v)

\* C8: nearest-rank rule. For n >= 1 samples and p in {50, 90, 99} the reported
\* percentile is the element of the ascending-sorted samples at index
\* round(p/100 * (n - 1)) clamped to [0, n - 1], hence one of the input samples.
C8_NearestRankPercentile ==
  (summary # <<>> /\ Len(samples) > 0) =>
    /\ ReportedIsNearestRank(summary[1][1].p50_ms, 50)
    /\ ReportedIsNearestRank(summary[1][1].p90_ms, 90)
    /\ ReportedIsNearestRank(summary[1][1].p99_ms, 99)

\* Two samples: 0.5 * 1 is a half and rounds to the even index 0, 0.9 * 1 to 1.
C8_Witness ==
  /\ summary # <<>>
  /\ samples = <<1, 0>>
  /\ IsMs(summary[1][1].p50_ms, 0)
  /\ IsMs(summary[1][1].p90_ms, 1)

(* ---------------------------- role inference ---------------------------- *)
Roles == {"sender", "receiver", "relay", "both", "unknown"}
FragFamily == {"frag_create", "frag_split", "frag_emit"}
ReasmFamily == {"reasm_add", "reasm_done"}
Seen(kinds) == \E i \in 1..Len(histogram) : histogram[i][1] \in kinds /\ histogram[i][2] > 0

DecisionTable ==
  IF Seen(sender_markers) /\ Seen(receiver_markers) THEN "both"
  ELSE IF Seen(sender_markers) THEN "sender"
  ELSE IF Seen(receiver_markers) /\ Seen(relay_markers) THEN "relay"
  ELSE IF Seen(receiver_markers) THEN "receiver"
  ELSE IF Seen(FragFamily) /\ Seen(ReasmFamily) THEN "relay"
  ELSE "unknown"

LabelOrder == <<"A", "AB", "B">>
LabelPos(k) == CHOOSE i \in 1..Len(LabelOrder) : LabelOrder[i] = k
Metric(s, sort_by) ==
  CASE sort_by = "avg" -> s.avg_ms
    [] sort_by = "p50" -> s.p50_ms
    [] sort_by = "p90" -> s.p90_ms
    [] sort_by = "p99" -> s.p99_ms
    [] sort_by = "max" -> s.max_ms
\* Group a is ranked strictly before group b.
RankedBefore(a, b, sort_by) ==
  LET sa == stats_ms(DictGet(table, a)[1])[1]
      sb == stats_ms(DictGet(table, b)[1])[1]
  IN \/ RatLess(Metric(sb, sort_by), Metric(sa, sort_by))
     \/ RatEq(Metric(sa, sort_by), Metric(sb, sort_by)) /\ LabelPos(a) < LabelPos(b)
NonEmptyGroups == {k \in DictKeys(table) : DictGet(table, k)[1] # <<>>}
EmittedRows == SelectSeq(ranked[3], LAMBDA l : l.text = "row")
Reordered(f) == [i \in 1..Len(table) |-> table[f[i]]]
Orderings == {f \in [1..Len(table) -> 1..Len(table)] : \A i, j \in 1..Len(table) : f[i] = f[j] => i = j}

\* C9: the rows emitted by the group table are the groups with a non-empty delta
\* list, each with the summary of its list, in descending order of the chosen
\* metric (avg, p50, p90, p99 or max) with ties in ascending label order, cut to
\* the first `limit` rows; every iteration order of the same mapping gives the
\* same output.
C9_GroupRanking ==
  ranked # <<>> =>
    LET sort_by == ranked[1]
        limit == ranked[2]
        rows == EmittedRows
    IN /\ Len(rows) = Min(limit, Cardinality(NonEmptyGroups))
       /\ \A i \in 1..Len(rows) :
            /\ rows[i].name \in NonEmptyGroups
            /\ rows[i].s = stats_ms(DictGet(table, rows[i].name)[1])
       /\ \A i \in 1..(Len(rows) - 1) :
            RankedBefore(rows[i].name, rows[i + 1].name, sort_by)
       /\ \A k \in NonEmptyGroups \ {rows[i].name : i \in 1..Len(rows)} :
            \A i \in 1..Len(rows) : RankedBefore(rows[i].name, k, sort_by)
       /\ \A f \in Orderings :
            print_group_table("by addr", Reordered(f), limit, sort_by) = ranked[3]

\* Groups inserted with means 0, 1 and 0.5 microseconds are ranked 1, 0.5, 0 by
\* avg, and two groups with equal means are emitted in label order.
C9_Witness ==
  /\ ranked # <<>>
  /\ ranked[1] = "avg"
  /\ \/ /\ table = << <<"A", <<0>> >>, <<"AB", <<1>> >>, <<"B", <<0, 1>> >> >>
        /\ [i \in 1..Len(EmittedRows) |-> EmittedRows[i].name] = <<"AB", "B", "A">>
     \/ /\ table = << <<"A", <<1>> >>, <<"B", <<1>> >> >>
        /\ print_group_table("by addr", << <<"B", <<1>> >>, <<"A", <<1>> >> >>, ranked[2],
                             "avg") = ranked[3]
        /\ [i \in 1..Len(EmittedRows) |-> EmittedRows[i].name] = <<"A", "B">>

(* ------------------------------- the report ------------------------------ *)
SenderPairs ==
  {"cam_frame -> enc_out", "enc_out -> video_payload", "video_payload -> mesh_send_call"}
ReceiverPairs == {"rx_video -> dec_in", "dec_in -> render_cb"}
FragmentPairs ==
  {"frag_create -> frag_split", "frag_split -> frag_emit(first)",
   "reasm_add(first) -> reasm_done"}
QueuePairs == {"enq -> deq", "emit -> ble_tx_call"}
StagePairs == SenderPairs \cup ReceiverPairs \cup FragmentPairs \cup QueuePairs
SectionOf(name) ==
  CASE name \in SenderPairs -> "Sender pipeline"
    [] name \in ReceiverPairs -> "Receiver pipeline"
    [] name \in FragmentPairs -> "Fragmentation/Reassembly"
    [] name = "enq -> deq" -> "Scheduler queue"
    [] name = "emit -> ble_tx_call" -> "Fragment send queue"
LinesOf(text, name) == {i \in 1..Len(out) : out[i].text = text /\ out[i].name = name}

\* The statement of C10 as claimed: after summarize_file, every stage pair whose
\* delta list is empty has a "no data" line in the report.
C10_EmptyStagePairReportsNoData ==
  pc = "done" =>
    /\ DOMAIN deltas = StagePairs
    /\ \A name \in StagePairs :
         deltas[name] = <<>> =>
           /\ LinesOf("stats", name) = {}
           /\ LinesOf("no data", name) # {}

\* C10 (amended): after summarize_file, on every source including the empty
\* one, all ten stage pairs were analysed; a stage pair with an empty delta list
\* never has a summary line; it has exactly one "no data" line if it belongs to
\* the sender or receiver pipeline, or to the fragmentation section while another
\* fragmentation pair has data; otherwise (no fragmentation pair has data, the
\* scheduler queue, the fragment send queue) its whole section is absent from
\* the report. A stage pair with data has exactly one summary line.
C10_EmptyStagePairOutcome ==
  pc = "done" =>
    /\ DOMAIN deltas = StagePairs
    /\ \A name \in StagePairs :
         IF deltas[name] = <<>>
         THEN /\ LinesOf("stats", name) = {}
              /\ IF \/ name \in SenderPairs \cup ReceiverPairs
                    \/ /\ name \in FragmentPairs
                       /\ \E other \in FragmentPairs : deltas[other] # <<>>
                 THEN Cardinality(LinesOf("no data", name)) = 1
                 ELSE /\ LinesOf("no data", name) = {}
                      /\ LinesOf("section", SectionOf(name)) = {}
         ELSE /\ Cardinality(LinesOf("stats", name)) = 1
              /\ LinesOf("no data", name) = {}

\* A source with a frag_create and a later frag_split and nothing else: one
\* fragmentation pair has a summary, the other two and the sender and receiver
\* pairs report "no data", and the two queue sections are absent.
C10_Witness ==
  /\ pc = "done"
  /\ Len(events) = 2
  /\ deltas["frag_create -> frag_split"] = <<1>>
  /\ LinesOf("no data", "frag_split -> frag_emit(first)") # {}
  /\ LinesOf("no data", "cam_frame -> enc_out") # {}
  /\ deltas["enq -> deq"] = <<>>
  /\ LinesOf("section", "Scheduler queue") = {}

(* ----------------------------- the line parser --------------------------- *)
\* A line of the form the claim names: ev=<kind>, t=<integer>, then key=value
\* tokens, after "D/latency: " or after nothing.
ClaimedForm(line) ==
  /\ line.prefix \in {"D/latency: ", ""}
  /\ Len(line.tokens) >= 2
  /\ line.tokens[1] = "ev=a"
  /\ line.tokens[2] = "t=1"
  /\ \A i \in 3..Len(line.tokens) : line.tokens[i] = "fid=7"
ExpectedEvent(line) ==
  Event("a", 1, IF Len(line.tokens) >= 3 THEN Fields([fid |-> "7"]) ELSE NoFields)

\* C11: every line read so far that is 'D/latency: ev=... t=...' or a plain
\* 'ev=<kind> t=<integer> key=value ...' line yields exactly one Event, with the
\* ev value as kind, the integer t as timestamp, and the remaining tokens as
\* fields; when all lines read have that form the Event list has one Event per
\* line, in line order.
C11_AcceptsMarkedAndPlainLines ==
  /\ \A i \in 1..Len(lines) :
       ClaimedForm(lines[i]) => parse_line(RawLine(lines[i])) = <<ExpectedEvent(lines[i])>>
  /\ (\A i \in 1..Len(lines) : ClaimedForm(lines[i]))
       => events = [i \in 1..Len(lines) |-> ExpectedEvent(lines[i])]

(* ---------------------------------- main --------------------------------- *)
\* The file a command-line path names.
Target(p) == IF p = "./a.log" THEN "a.log" ELSE p
Unreadable(p) == p = "d"
Missing(p) == p = "b.log"
FirstSeen == SelectSeq([i \in 1..Len(argv) |-> <<i, argv[i]>>],
                       LAMBDA e : \A j \in 1..(e[1] - 1) : Target(argv[j]) # Target(e[2]))
\* The list holds each distinct resolved path once, in first-occurrence order.
UniqIsFirstSeen == uniq = [i \in 1..Len(FirstSeen) |-> FirstSeen[i][2]]
Handled(i) ==
  /\ printed[i].path = uniq[i]
  /\ IF Missing(uniq[i]) THEN printed[i].text = "Missing file"
     ELSE /\ printed[i].text = "summary"
          /\ printed[i].out # <<>>

\* The statement of C12 as claimed: the list to process is the distinct resolved
\* paths in first-occurrence order; a non-zero exit happens only when that list
\* is empty; otherwise main returns 0 after a warning for each missing file and
\* a summary of every other file.
C12_FileSetHandling ==
  /\ pc \in {"files", "done"} => UniqIsFirstSeen
  /\ (rc # None /\ rc # Some(0)) => uniq = <<>>
  /\ (pc = "done" /\ uniq # <<>>) =>
       /\ rc = Some(0)
       /\ Len(printed) = Len(uniq)
       /\ \A i \in 1..Len(uniq) : Handled(i)

\* C12 (amended): the list to process is the distinct resolved paths in
\* first-occurrence order; main ends with a non-zero exit exactly when the list
\* is empty or a listed path exists but cannot be read as a file, in which case
\* the files listed before it were handled and the later ones were not; when
\* every listed path is a readable file or missing, main returns 0 after a
\* warning for each missing file and a summary of every other file.
C12_FileSetHandlingReadable ==
  /\ pc \in {"files", "done"} => UniqIsFirstSeen
  /\ pc = "files" => (uniq # <<>> /\ rc = None)
  /\ \A i \in 1..Len(printed) : Handled(i) /\ ~Unreadable(uniq[i])
  /\ pc = "done" =>
       /\ rc # None
       /\ rc # Some(0) <=>
            \/ uniq = <<>>
            \/ \E i \in 1..Len(uniq) : Unreadable(uniq[i])
       /\ (uniq # <<>> /\ rc # Some(0)) =>
            /\ Len(printed) < Len(uniq)
            /\ Unreadable(uniq[Len(printed) + 1])
       /\ rc = Some(0) => Len(printed) = Len(uniq)

\* main returned 0 on a command line that names a.log twice (once as ./a.log)
\* after the missing b.log: one warning, one summary.
C12_Witness ==
  /\ pc = "done"
  /\ rc = Some(0)
  /\ argv = <<"b.log", "a.log", "./a.log">>
  /\ uniq = <<"b.log", "a.log">>
  /\ printed[1].text = "Missing file"
  /\ printed[2].text = "summary"

(* ------------------------------ clock labels ------------------------------ *)
Labelled(name) == Contains(name, "requires synced clocks")
CrossSource(stat) == \E i \in 1..Len(stat.arr) : Cardinality(stat.arr[i].srcs) > 1

\* C13: every printed statistic with a delta between timestamps of two different
\* log sources is labelled as requiring synchronized clocks, and every statistic
\* without the label is computed from timestamps of one source only.
C13_CrossSourceStatsLabelled ==
  \A i \in 1..Len(flows) : CrossSource(flows[i]) => Labelled(flows[i].name)

TxCalls == {i \in 1..Len(events) : events[i].ev = "ble_tx_call"}
EarliestTxCalls == {i \in TxCalls : \A j \in TxCalls : events[i].t <= events[j].t}
AddrLabel(e) == IF get(e, "addr") = None THEN "(unknown)" ELSE get(e, "addr")[1]

\* C15: in the fragment send-queue analysis the delta of the key (fragId, idx) is
\* bucketed under the addr of the earliest ble_tx_call of that key, the event
\* whose timestamp the delta uses, or under "(unknown)" when that event has no
\* addr, also when several ble_tx_call events of the key differ in addr.
C15_BucketIsAddrOfUsedTxCall ==
  (pc = "done" /\ "emit -> ble_tx_call" \in DOMAIN deltas
     /\ deltas["emit -> ble_tx_call"] # <<>>) =>
    LET per_addr == groups["Fragment send queue by addr"]
    IN /\ Len(per_addr) = 1
       /\ per_addr[1][2] = deltas["emit -> ble_tx_call"]
       /\ \E i \in EarliestTxCalls : per_addr[1][1] = AddrLabel(events[i])

(* ---------------------------- scheduler queue key -------------------------- *)
HasRequiredKeyFields(e) ==
  get(e, "addr") # None /\ get(e, "priority") # None /\ get(e, "transferId") # None

\* C16: a scheduler event without addr, priority or transferId is dropped for
\* the stage pair: the delta list and the two per-group mappings are those of the
\* Event list without such events.
C16_IncompleteSchedulerKeyDropped ==
  (pc = "done" /\ "enq -> deq" \in DOMAIN deltas) =>
    LET r == scheduler_queue_delays(SelectSeq(events, HasRequiredKeyFields))
    IN /\ deltas["enq -> deq"] = r.delays
       /\ groups["Scheduler queue by addr"] = r.per_addr
       /\ groups["Scheduler queue by priority"] = r.per_prio

(* -------------------------- incomplete observations ------------------------ *)
\* The events of evs without those of a key seen on one side only.
WithoutOneSided(evs, ev_start, ev_end, make_key) ==
  LET both == BothSides(evs, ev_start, ev_end, make_key)
  IN SelectSeq(evs, LAMBDA e :
       (e.ev \in {ev_start, ev_end} /\ MakeKey(make_key, e) # None)
         => MakeKey(make_key, e)[1] \in both)
Ignored(name, ev_start, ev_end, make_key, rerun) ==
  name \in DOMAIN deltas =>
    /\ Len(deltas[name]) <= Cardinality(BothSides(events, ev_start, ev_end, make_key))
    /\ deltas[name] = rerun

\* C17: in the key-matched correlators a key with only start events or only end
\* events gives no delta: a stage pair has at most as many deltas as keys seen on
\* both sides, and its delta list is the one the same Event list gives without
\* the events of one-sided keys.
C17_IncompleteObservationsIgnored ==
  pc = "done" =>
    /\ Ignored("emit -> ble_tx_call", "frag_emit", "ble_tx_call", "key_emit_tx",
               fragment_queue_delays(
                 WithoutOneSided(events, "frag_emit", "ble_tx_call", "key_emit_tx")).delays)
    /\ Ignored("enq -> deq", "sched_enq", "sched_deq", "_match_key",
               scheduler_queue_delays(
                 WithoutOneSided(events, "sched_enq", "sched_deq", "_match_key")).delays)
    /\ Ignored("generic frag", "frag_emit", "ble_tx_call", "key_emit_tx",
               group_delays_by_key(
                 WithoutOneSided(events, "frag_emit", "ble_tx_call", "key_emit_tx"),
                 "frag_emit", "ble_tx_call", "key_emit_tx").all_delays)
    /\ Ignored("generic sched", "sched_enq", "sched_deq", "_match_key",
               group_delays_by_key(
                 WithoutOneSided(events, "sched_enq", "sched_deq", "_match_key"),
                 "sched_enq", "sched_deq", "_match_key").all_delays)

\* Fragment 0 was emitted and sent, fragment 1 was emitted and never sent: one
\* delta.
C17_Witness ==
  /\ pc = "done"
  /\ Len(events) = 3
  /\ \E i \in 1..3 : events[i].ev = "frag_emit" /\ get(events[i], "idx") = Some("1")
  /\ "emit -> ble_tx_call" \in DOMAIN deltas
  /\ deltas["emit -> ble_tx_call"] = <<1>>

====
